---- MODULE Spec2Model ----
(***************************************************************************)
(* A model of find_unmatched: braces.py and find_unmatched_braces.py.      *)
(*                                                                         *)
(* The scripts are Python 2 (len(l)/2 is an integer, the doctests print    *)
(* set([...])).  A set of pairs is iterated in an order the hash table     *)
(* decides; the model draws that order nondeterministically (order).       *)
(* A Python list is an object: opens and open_for of braces.py hold        *)
(* references to lists, modelled as indices into heap.                     *)
(***************************************************************************)
EXTENDS Integers, Sequences, FiniteSets, TLC

VARIABLES
    pc,             \* position of the running operation
    f,              \* check_file: the lines, each a sequence of characters
    order,          \* check_file: open_close_pairs in iteration order
    li,             \* check_file: lines the outer loop has taken from f
    ci,             \* check_file: characters the inner loop has taken from the line
    bst,            \* braces.py check_file: its local variables
    ust,            \* find_unmatched_braces.py check_file: its local variables
    b_result,       \* what braces.py check_file returned
    u_result,       \* what find_unmatched_braces.py check_file returned
    seen,           \* check_file: the (character, position) the loop body ran on, in order
    l,              \* list_to_pairs: its argument
    pairs,          \* list_to_pairs: its outcome
    hit_dictionary, \* condense_to_list: its argument
    key_order,      \* condense_to_list: the dict's keys in iteration order
    condensed,      \* condense_to_list: its outcome
    prog,           \* __main__: the script that runs
    argv,           \* __main__: the options of the command line, in order
    filenames,      \* __main__: args.filenames
    args,           \* __main__: the parsed options (symbols, verbose)
    open_close_pairs, \* __main__: the pair set the loop scans with
    fi,             \* __main__: files the loop has taken from args.filenames
    visited,        \* __main__: the files open() was called on, in order
    stdout,         \* __main__: the lines written to standard output
    stderr,         \* __main__: the chunks written to standard error
    raised          \* __main__: the exception that ended the run ("" if none)

scanVars == <<f, order, li, ci, bst, ust, b_result, u_result, seen>>

pairVars == <<l, pairs>>

condVars == <<hit_dictionary, key_order, condensed>>

mainVars == <<prog, argv, filenames, args, open_close_pairs, fi, visited,
              stdout, stderr, raised>>

vars == <<pc, scanVars, pairVars, condVars, mainVars>>

----------------------------------------------------------------------------
(* Bounds of the model. *)

MaxLines == 2
MaxLen == 3
MaxSingleLen == 5
MaxSymbols == 4
MaxHits == 1
MaxOptions == 2
MaxFiles == 2

(* The characters of the inputs: three symbols and one character no pair   *)
(* set of the model registers.                                             *)
Symbols == {"{", "}", "$"}
Chars == Symbols \cup {"x"}

(* The pairs the pair sets are drawn from: an ordinary pair, a             *)
(* self-matching pair, and a pair sharing a symbol with each of them.      *)
PairUniverse == {<<"{", "}">>, <<"$", "$">>, <<"}", "$">>}

(* The longer inputs scanned with the one ordinary pair {, } alone. *)
SingleChars == {"{", "}", "x"}

(* Two ordinary pairs with distinct symbols, and the inputs over them. *)
TwinUniverse == {<<"{", "}">>, <<"(", ")">>}
TwinChars == {"{", "}", "(", ")"}

(* The keys and the positions of the mappings given to condense_to_list. *)
CondKeys == {<<"{", "}">>, <<"$", "$">>}
CondPositions == {<<1, 1>>, <<1, 2>>, <<2, 1>>}

(* The --symbols lists of the command lines. *)
MainSymbolLists ==
    {<<>>, <<"{">>, <<"(", ")">>, <<"{", "}", "$">>, <<"{", "}", "$", "$">>}

(* The files the command lines name: two that can be read and one whose    *)
(* open (or read) raises IOError.  A line stands without its newline, a    *)
(* character no pair of the model registers.  print_list runs only after   *)
(* check_file has read the whole file, so a read that fails late leaves no *)
(* more output than an open that fails.                                    *)
FileSystem ==
    [name \in {"a.tex", "b.tex", "gone.tex"} |->
        CASE name = "a.tex" ->
                [readable |-> TRUE, lines |-> << <<"{", "$">>, <<"x", ")">> >>]
          [] name = "b.tex" ->
                [readable |-> TRUE, lines |-> << <<"}", "{", "}">> >>]
          [] OTHER ->
                [readable |-> FALSE, lines |-> <<>>]]

(* What a call yields: the exception it raises ("" when it returns) and    *)
(* the value it returns.                                                   *)
Returns(v) == [raises |-> "", value |-> v]
Raises(e) == [raises |-> e, value |-> <<>>]

----------------------------------------------------------------------------
(* Helpers on sequences. *)

Range(s) == {s[i] : i \in DOMAIN s}

Front(s) == SubSeq(s, 1, Len(s) - 1)

SeqsOfLen(S, n) == [1..n -> S]

SeqsUpTo(S, n) == UNION {SeqsOfLen(S, k) : k \in 0..n}

(* The iteration orders of a set: its injective enumerations. *)
Orders(S) == {o \in [1..Cardinality(S) -> S] : Range(o) = S}

(* The greatest index of seq whose element has val as component k. *)
LastIndexOf(seq, k, val) ==
    CHOOSE i \in DOMAIN seq :
        /\ seq[i][k] = val
        /\ \A j \in DOMAIN seq : seq[j][k] = val => j <= i

(* Files of at most k lines holding at most n characters of cs in all. *)
RECURSIVE FilesWith(_, _, _)
FilesWith(cs, k, n) ==
    IF k = 0 THEN {<<>>}
    ELSE {<<>>} \cup UNION {
            {<<line>> \o rest : line \in SeqsOfLen(cs, j),
                                rest \in FilesWith(cs, k - 1, n - j)}
            : j \in 0..n}

----------------------------------------------------------------------------
(* braces.py check_file.  A Python list is an object: opens and open_for   *)
(* hold references, modelled as indices into heap.                         *)

(* Mutant: the pairs do not get a fresh list each; they all use one list. *)
braces_setup_one_list(ord) ==
    LET openSyms == {ord[i][1] : i \in DOMAIN ord}
        closeSyms == {ord[i][2] : i \in DOMAIN ord}
    IN  [opens |-> [s \in openSyms |-> 1],
         open_for |-> [s \in closeSyms |-> 1],
         heap |-> [i \in DOMAIN ord |-> <<>>],
         closes |-> [s \in closeSyms |-> <<>>],
         line_number |-> 0,
         column |-> 0,
         error |-> ""]

(* Lines 55-63: one fresh list per pair; a later pair overwrites the       *)
(* entries of an earlier pair that uses the same symbol.                   *)
braces_setup(ord) ==
    LET openSyms == {ord[i][1] : i \in DOMAIN ord}
        closeSyms == {ord[i][2] : i \in DOMAIN ord}
    IN  [opens |-> [s \in openSyms |-> LastIndexOf(ord, 1, s)],
         open_for |-> [s \in closeSyms |-> LastIndexOf(ord, 2, s)],
         heap |-> [i \in DOMAIN ord |-> <<>>],
         closes |-> [s \in closeSyms |-> <<>>],
         line_number |-> 0,
         column |-> 0,
         error |-> ""]

(* Mutant: the column counter is not reset at the start of a line. *)
start_column_kept(column) == column

(* Line 66: column = 0 *)
start_column(column) == 0

(* Lines 65-66: the head of the outer loop's body *)
braces_line(st) ==
    [st EXCEPT !.line_number = @ + 1, !.column = start_column(@)]

(* Mutant: the self-matching test never succeeds, as in the older script. *)
braces_is_toggle_never(st, sym) == FALSE

(* Mutant: the test is cut down to its first half, sym in opens. *)
braces_is_toggle_any_open(st, sym) ==
    sym \in DOMAIN st.opens

(* Line 69: sym in opens and open_for.get(sym, None) == opens[sym].  The   *)
(* == of Python compares the two lists by value, not by identity.          *)
braces_is_toggle(st, sym) ==
    /\ sym \in DOMAIN st.opens
    /\ sym \in DOMAIN st.open_for
    /\ st.heap[st.open_for[sym]] = st.heap[st.opens[sym]]

(* list.append on a list of the heap *)
heap_append(st, id, pos) ==
    [st EXCEPT !.heap[id] = Append(@, pos)]

(* Mutant: the pop is left out. *)
heap_pop_noop(st, id) == st

(* list.pop on a list of the heap: IndexError on an empty list *)
heap_pop(st, id) ==
    IF Len(st.heap[id]) = 0
    THEN [st EXCEPT !.error = "IndexError"]
    ELSE [st EXCEPT !.heap[id] = Front(@)]

(* Lines 70-73: the self-matching branch *)
braces_toggle(st, sym, pos) ==
    IF Len(st.heap[st.opens[sym]]) = 0
    THEN heap_append(st, st.opens[sym], pos)
    ELSE heap_pop(st, st.opens[sym])

(* Mutant: an open cancels a pending unmatched close of its pair. *)
braces_open_cancels_close(st, sym, pos) ==
    LET cs == {c \in DOMAIN st.closes :
                  st.open_for[c] = st.opens[sym] /\ st.closes[c] # <<>>}
    IN  IF cs # {}
        THEN LET c == CHOOSE x \in cs : TRUE
             IN  [st EXCEPT !.closes[c] = Front(@)]
        ELSE heap_append(st, st.opens[sym], pos)

(* Lines 74-75: the open branch *)
braces_open(st, sym, pos) ==
    heap_append(st, st.opens[sym], pos)

(* Mutant: a close never pops; it is always recorded as unmatched. *)
braces_close_always_recorded(st, sym, pos) ==
    [st EXCEPT !.closes[sym] = Append(@, pos)]

(* Mutant: the close branch pops without looking at the stack's length. *)
braces_close_unguarded(st, sym, pos) ==
    heap_pop(st, st.open_for[sym])

(* Mutant: a close that pops its open is recorded as unmatched as well. *)
braces_close_pop_and_record(st, sym, pos) ==
    LET s1 == IF Len(st.heap[st.open_for[sym]]) > 0
              THEN heap_pop(st, st.open_for[sym])
              ELSE st
    IN  [s1 EXCEPT !.closes[sym] = Append(@, pos)]

(* Mutant: a close pops only from a stack that holds two opens or more. *)
braces_close_needs_two(st, sym, pos) ==
    IF Len(st.heap[st.open_for[sym]]) > 1
    THEN heap_pop(st, st.open_for[sym])
    ELSE [st EXCEPT !.closes[sym] = Append(@, pos)]

(* Lines 76-80: the close branch *)
braces_close(st, sym, pos) ==
    IF Len(st.heap[st.open_for[sym]]) > 0
    THEN heap_pop(st, st.open_for[sym])
    ELSE [st EXCEPT !.closes[sym] = Append(@, pos)]

(* Mutant: the position is taken before the column counter is advanced. *)
braces_sym_zero_indexed(st, sym) ==
    LET s1 == [st EXCEPT !.column = @ + 1]
        pos == <<st.line_number, st.column>>
    IN  IF braces_is_toggle(s1, sym) THEN braces_toggle(s1, sym, pos)
        ELSE IF sym \in DOMAIN s1.opens THEN braces_open(s1, sym, pos)
        ELSE IF sym \in DOMAIN s1.closes THEN braces_close(s1, sym, pos)
        ELSE s1

(* Lines 68-80: the body of the inner loop *)
braces_sym(st, sym) ==
    LET s1 == [st EXCEPT !.column = @ + 1]
        pos == <<s1.line_number, s1.column>>
    IN  IF braces_is_toggle(s1, sym) THEN braces_toggle(s1, sym, pos)
        ELSE IF sym \in DOMAIN s1.opens THEN braces_open(s1, sym, pos)
        ELSE IF sym \in DOMAIN s1.closes THEN braces_close(s1, sym, pos)
        ELSE s1

(* Line 82: the returned mapping *)
braces_return(st, ord) ==
    [p \in Range(ord) |-> <<st.heap[st.opens[p[1]]], st.closes[p[2]]>>]

----------------------------------------------------------------------------
(* find_unmatched_braces.py check_file: open_for holds the open symbol,    *)
(* and every list is reached through opens or closes.                      *)

(* Lines 21-29 *)
fub_setup(ord) ==
    LET openSyms == {ord[i][1] : i \in DOMAIN ord}
        closeSyms == {ord[i][2] : i \in DOMAIN ord}
    IN  [opens |-> [s \in openSyms |-> <<>>],
         open_for |-> [s \in closeSyms |-> ord[LastIndexOf(ord, 2, s)][1]],
         closes |-> [s \in closeSyms |-> <<>>],
         line_number |-> 0,
         column |-> 0]

(* Lines 31-32: the head of the outer loop's body *)
fub_line(st) ==
    [st EXCEPT !.line_number = @ + 1, !.column = 0]

(* Lines 34-41: the body of the inner loop *)
fub_sym(st, sym) ==
    LET s1 == [st EXCEPT !.column = @ + 1]
        pos == <<s1.line_number, s1.column>>
    IN  IF sym \in DOMAIN s1.opens
        THEN [s1 EXCEPT !.opens[sym] = Append(@, pos)]
        ELSE IF sym \in DOMAIN s1.closes
        THEN IF Len(s1.opens[s1.open_for[sym]]) > 0
             THEN [s1 EXCEPT !.opens[s1.open_for[sym]] = Front(@)]
             ELSE [s1 EXCEPT !.closes[sym] = Append(@, pos)]
        ELSE s1

(* Line 43: the returned mapping *)
fub_return(st, ord) ==
    [p \in Range(ord) |-> <<st.opens[p[1]], st.closes[p[2]]>>]

----------------------------------------------------------------------------
(* check_file as a function of its arguments: the two loops run to the end *)

RECURSIVE braces_chars(_, _, _)
braces_chars(st, line, i) ==
    IF i > Len(line) \/ st.error # "" THEN st
    ELSE braces_chars(braces_sym(st, line[i]), line, i + 1)

RECURSIVE braces_lines(_, _, _)
braces_lines(st, file, i) ==
    IF i > Len(file) \/ st.error # "" THEN st
    ELSE braces_lines(braces_chars(braces_line(st), file[i], 1), file, i + 1)

check_file(file, ord) ==
    braces_return(braces_lines(braces_setup(ord), file, 1), ord)

RECURSIVE fub_chars(_, _, _)
fub_chars(st, line, i) ==
    IF i > Len(line) THEN st
    ELSE fub_chars(fub_sym(st, line[i]), line, i + 1)

RECURSIVE fub_lines(_, _, _)
fub_lines(st, file, i) ==
    IF i > Len(file) THEN st
    ELSE fub_lines(fub_chars(fub_line(st), file[i], 1), file, i + 1)

fub_check_file(file, ord) ==
    fub_return(fub_lines(fub_setup(ord), file, 1), ord)

----------------------------------------------------------------------------
(* The values of the variables an operation does not use. *)

ScanIdle ==
    /\ f = <<>>
    /\ order = <<>>
    /\ li = 0
    /\ ci = 0
    /\ bst = <<>>
    /\ ust = <<>>
    /\ b_result = <<>>
    /\ u_result = <<>>
    /\ seen = <<>>

PairIdle ==
    /\ l = <<>>
    /\ pairs = <<>>

CondIdle ==
    /\ hit_dictionary = <<>>
    /\ key_order = <<>>
    /\ condensed = <<>>

MainIdle ==
    /\ prog = ""
    /\ argv = <<>>
    /\ filenames = <<>>
    /\ args = <<>>
    /\ open_close_pairs = {}
    /\ fi = 0
    /\ visited = <<>>
    /\ stdout = <<>>
    /\ stderr = <<>>
    /\ raised = ""

----------------------------------------------------------------------------
(* The scan, one step of the loops at a time; the two scripts' check_file  *)
(* read the same input side by side.                                       *)

InitScan ==
    /\ pc = "scan"
    /\ f \in FilesWith(Chars, MaxLines, MaxLen)
    /\ \E S \in SUBSET PairUniverse : order \in Orders(S)
    /\ li = 0
    /\ ci = 0
    /\ bst = braces_setup(order)
    /\ ust = fub_setup(order)
    /\ b_result = <<>>
    /\ u_result = <<>>
    /\ seen = <<>>
    /\ PairIdle
    /\ CondIdle
    /\ MainIdle

(* The scan of longer inputs with the pair set {({, })}. *)
InitSingle ==
    /\ pc = "scan"
    /\ f \in FilesWith(SingleChars, MaxLines, MaxSingleLen)
    /\ order = << <<"{", "}">> >>
    /\ li = 0
    /\ ci = 0
    /\ bst = braces_setup(order)
    /\ ust = fub_setup(order)
    /\ b_result = <<>>
    /\ u_result = <<>>
    /\ seen = <<>>
    /\ PairIdle
    /\ CondIdle
    /\ MainIdle

(* The inner loop has exhausted its line (or no line was taken yet). *)
LineDone ==
    IF li = 0 THEN TRUE ELSE ci = Len(f[li])

(* for line in f: line_number += 1; column = 0 *)
NextLine ==
    /\ pc = "scan"
    /\ bst.error = ""
    /\ LineDone
    /\ li < Len(f)
    /\ li' = li + 1
    /\ ci' = 0
    /\ bst' = braces_line(bst)
    /\ ust' = fub_line(ust)
    /\ UNCHANGED <<pc, f, order, b_result, u_result, seen, pairVars, condVars, mainVars>>

(* for sym in line: column += 1; the if/elif chain *)
NextSym ==
    /\ pc = "scan"
    /\ bst.error = ""
    /\ li >= 1
    /\ ci < Len(f[li])
    /\ ci' = ci + 1
    /\ bst' = braces_sym(bst, f[li][ci'])
    /\ ust' = fub_sym(ust, f[li][ci'])
    /\ seen' = Append(seen, <<f[li][ci'], <<bst'.line_number, bst'.column>>>>)
    /\ UNCHANGED <<pc, f, order, li, b_result, u_result, pairVars, condVars, mainVars>>

(* return { (o, c) : (opens[o], closes[c]) for o, c in open_close_pairs } *)
Return ==
    /\ pc = "scan"
    /\ bst.error = ""
    /\ LineDone
    /\ li = Len(f)
    /\ pc' = "done"
    /\ b_result' = braces_return(bst, order)
    /\ u_result' = fub_return(ust, order)
    /\ UNCHANGED <<f, order, li, ci, bst, ust, seen, pairVars, condVars, mainVars>>

NextScan == NextLine \/ NextSym \/ Return

SpecScan == InitScan /\ [][NextScan]_vars

SpecSingle == InitSingle /\ [][NextScan]_vars

(* The scan with pair sets of ordinary pairs whose symbols are distinct. *)
InitTwin ==
    /\ pc = "scan"
    /\ f \in FilesWith(TwinChars, MaxLines, MaxLen)
    /\ \E S \in SUBSET TwinUniverse : order \in Orders(S)
    /\ li = 0
    /\ ci = 0
    /\ bst = braces_setup(order)
    /\ ust = fub_setup(order)
    /\ b_result = <<>>
    /\ u_result = <<>>
    /\ seen = <<>>
    /\ PairIdle
    /\ CondIdle
    /\ MainIdle

SpecTwin == InitTwin /\ [][NextScan]_vars

----------------------------------------------------------------------------
(* list_to_pairs (the same in both scripts) *)

(* Mutant: an odd-length list is refused. *)
list_to_pairs_strict(lst) ==
    IF Len(lst) % 2 = 1 THEN Raises("ValueError")
    ELSE Returns({<<lst[2 * i + 1], lst[2 * i + 2]>> : i \in 0..((Len(lst) \div 2) - 1)})

(* braces.py line 93: {(l[2*i], l[2*i+1]) for i in range(len(l)/2)}; the   *)
(* division is Python 2's integer division, the indices are 0-based.       *)
list_to_pairs(lst) ==
    Returns({<<lst[2 * i + 1], lst[2 * i + 2]>> : i \in 0..((Len(lst) \div 2) - 1)})

InitPairs ==
    /\ pc = "pair"
    /\ l \in SeqsUpTo(Symbols, MaxSymbols)
    /\ pairs = <<>>
    /\ ScanIdle
    /\ CondIdle
    /\ MainIdle

ListToPairs ==
    /\ pc = "pair"
    /\ pc' = "paired"
    /\ pairs' = list_to_pairs(l)
    /\ UNCHANGED <<l, scanVars, condVars, mainVars>>

NextPairs == ListToPairs

SpecPairs == InitPairs /\ [][NextPairs]_vars

----------------------------------------------------------------------------
(* condense_to_list (the same in both scripts) *)

(* braces.py line 103: the entries of one pair, its opens first *)
pair_entries(p, hits) ==
    [i \in 1..Len(hits[1]) |-> <<p[1], hits[1][i][1], hits[1][i][2]>>]
        \o [i \in 1..Len(hits[2]) |-> <<p[2], hits[2][i][1], hits[2][i][2]>>]

(* braces.py lines 102-105: the list of the pairs' entry lists, in the     *)
(* iteration order of the dict                                             *)
entry_lists(hd, korder) ==
    [i \in 1..Len(korder) |-> pair_entries(korder[i], hd[korder[i]])]

RECURSIVE concat_all(_)
concat_all(lists) ==
    IF Len(lists) = 1 THEN lists[1]
    ELSE concat_all(Front(lists)) \o lists[Len(lists)]

(* functools.reduce(operator.add, lists), without an initial value: it     *)
(* raises TypeError on an empty list of lists.                             *)
reduce_add(lists) ==
    IF Len(lists) = 0 THEN Raises("TypeError") ELSE Returns(concat_all(lists))

(* braces.py line 107: key = lambda n : n[1:], tuples compared by Python   *)
key_le(a, b) ==
    a[2] < b[2] \/ (a[2] = b[2] /\ a[3] <= b[3])

(* e put into the sorted sequence s behind every entry not greater. *)
RECURSIVE insert_sorted(_, _)
insert_sorted(s, e) ==
    IF s = <<>> THEN <<e>>
    ELSE IF key_le(s[Len(s)], e) THEN Append(s, e)
    ELSE Append(insert_sorted(Front(s), e), s[Len(s)])

(* sorted(seq, key = ...): Python's sort is stable *)
RECURSIVE sorted(_)
sorted(seq) ==
    IF seq = <<>> THEN <<>>
    ELSE insert_sorted(sorted(Front(seq)), seq[Len(seq)])

(* braces.py lines 101-107 *)
condense_to_list(hd, korder) ==
    LET sum == reduce_add(entry_lists(hd, korder))
    IN  IF sum.raises # "" THEN sum ELSE Returns(sorted(sum.value))

(* The lists of at most MaxHits positions. *)
HitLists == SeqsUpTo(CondPositions, MaxHits)

InitCondense ==
    /\ pc = "condense"
    /\ \E K \in SUBSET CondKeys :
        /\ hit_dictionary \in [K -> HitLists \X HitLists]
        /\ key_order \in Orders(K)
    /\ condensed = <<>>
    /\ ScanIdle
    /\ PairIdle
    /\ MainIdle

CondenseToList ==
    /\ pc = "condense"
    /\ pc' = "condensed"
    /\ condensed' = condense_to_list(hit_dictionary, key_order)
    /\ UNCHANGED <<hit_dictionary, key_order, scanVars, pairVars, mainVars>>

NextCondense == CondenseToList

SpecCondense == InitCondense /\ [][NextCondense]_vars

----------------------------------------------------------------------------
(* __main__ of the two scripts *)

(* braces.py line 23 *)
latex_symbol_list == <<"{", "}", "$", "$", "(", ")">>

(* braces.py line 114, find_unmatched_braces.py line 74: default=['{', '}'] *)
default_symbols == <<"{", "}">>

(* The options of braces.py (lines 113-115); --symbols carries its values. *)
Option(name, values) == [opt |-> name, values |-> values]

BracesOptions ==
    {Option("--latex", <<>>), Option("--verbose", <<>>)}
        \cup {Option("--symbols", v) : v \in MainSymbolLists}

(* The only option of find_unmatched_braces.py (line 74). *)
FubOptions == {Option("--symbols", v) : v \in MainSymbolLists}

(* argparse: one option stored into the namespace.  --symbols (store) and  *)
(* --latex (store_const) have the same dest, symbols.                      *)
store_option(ns, o) ==
    CASE o.opt = "--symbols" -> [ns EXCEPT !.symbols = o.values]
      [] o.opt = "--latex" -> [ns EXCEPT !.symbols = latex_symbol_list]
      [] OTHER -> [ns EXCEPT !.verbose = TRUE]

(* parser.parse_args(): the defaults, then the options in command-line     *)
(* order (braces.py line 116, find_unmatched_braces.py line 75).           *)
RECURSIVE parse_options(_, _)
parse_options(opts, n) ==
    IF n = 0 THEN [symbols |-> default_symbols, verbose |-> FALSE]
    ELSE store_option(parse_options(opts, n - 1), opts[n])

parse_args(opts) == parse_options(opts, Len(opts))

(* braces.py line 118, find_unmatched_braces.py line 76: the test on the   *)
(* number of symbols                                                       *)
symbols_accepted(script, symbols) ==
    IF script = "braces.py"
    THEN Len(symbols) > 0 /\ Len(symbols) % 2 = 0
    ELSE Len(symbols) % 2 = 0

(* braces.py line 120: reduce(lambda x, y: '{x} {y}', args.symbols) *)
RECURSIVE join_symbols(_)
join_symbols(symbols) ==
    IF Len(symbols) = 1 THEN <<symbols[1]>>
    ELSE join_symbols(Front(symbols)) \o <<" ", symbols[Len(symbols)]>>

(* braces.py lines 33-34: one line per error, the pieces of the format     *)
(* '{filename} - [{line}:{column}] ({message})' in order                   *)
print_list(filename, errors) ==
    [i \in 1..Len(errors) |->
        <<filename, " - [", ToString(errors[i][2]), ":", ToString(errors[i][3]),
          "] (", errors[i][1], ")">>]

(* braces.py lines 131-135: the chunks written to sys.stderr *)
braces_diagnostic(symbols) ==
    LET chunk(i) == IF i % 2 = 1 THEN symbols[(i + 1) \div 2] ELSE " "
    IN  <<"Must specify bracket symbols as a list of pairs, e.g. braces.py { } ( )\n",
          "I read:\n">>
            \o [i \in 1..(2 * Len(symbols)) |-> chunk(i)]
            \o <<"\n">>

(* find_unmatched_braces.py line 87: the line printed to standard output *)
fub_usage ==
    <<"Must specify bracket symbols as a pair, e.g. find_unmatched_braces.py { } ( )">>

(* check_file of the running script *)
script_check_file(script, file, ord) ==
    IF script = "braces.py" THEN check_file(file, ord) ELSE fub_check_file(file, ord)

InitMain ==
    /\ pc = "start"
    /\ prog \in {"braces.py", "find_unmatched_braces.py"}
    /\ argv \in SeqsUpTo(IF prog = "braces.py" THEN BracesOptions ELSE FubOptions,
                         MaxOptions)
    /\ filenames \in SeqsUpTo(DOMAIN FileSystem, MaxFiles) \ {<<>>}
    /\ args = <<>>
    /\ open_close_pairs = {}
    /\ fi = 0
    /\ visited = <<>>
    /\ stdout = <<>>
    /\ stderr = <<>>
    /\ raised = ""
    /\ ScanIdle
    /\ PairIdle
    /\ CondIdle

(* args = parser.parse_args() *)
ParseArgs ==
    /\ pc = "start"
    /\ pc' = "parsed"
    /\ args' = parse_args(argv)
    /\ UNCHANGED <<prog, argv, filenames, open_close_pairs, fi, visited,
                   stdout, stderr, raised, scanVars, pairVars, condVars>>

(* braces.py lines 118-121, find_unmatched_braces.py lines 76-77: the      *)
(* symbols are accepted                                                    *)
AcceptSymbols ==
    /\ pc = "parsed"
    /\ symbols_accepted(prog, args.symbols)
    /\ pc' = "loop"
    /\ stdout' = IF prog = "braces.py" /\ args.verbose
                 THEN << <<"Checking for: ">> \o join_symbols(args.symbols) >>
                 ELSE <<>>
    /\ open_close_pairs' = list_to_pairs(args.symbols).value
    /\ UNCHANGED <<prog, argv, filenames, args, fi, visited, stderr, raised,
                   scanVars, pairVars, condVars>>

(* braces.py lines 129-135, find_unmatched_braces.py lines 85-87: the      *)
(* symbols are refused                                                     *)
RefuseSymbols ==
    /\ pc = "parsed"
    /\ ~symbols_accepted(prog, args.symbols)
    /\ pc' = "exit"
    /\ IF prog = "braces.py"
       THEN /\ stderr' = braces_diagnostic(args.symbols)
            /\ stdout' = stdout
       ELSE /\ stdout' = << fub_usage >>
            /\ stderr' = stderr
    /\ UNCHANGED <<prog, argv, filenames, args, open_close_pairs, fi, visited,
                   raised, scanVars, pairVars, condVars>>

(* braces.py lines 122-128: open() or the read raises IOError; pass *)
SkipFile ==
    /\ pc = "loop"
    /\ fi < Len(filenames)
    /\ ~FileSystem[filenames[fi + 1]].readable
    /\ fi' = fi + 1
    /\ visited' = Append(visited, filenames[fi + 1])
    /\ UNCHANGED <<pc, prog, argv, filenames, args, open_close_pairs, stdout,
                   stderr, raised, scanVars, pairVars, condVars>>

(* braces.py lines 122-126: the file is scanned and its report printed *)
ReportFile ==
    /\ pc = "loop"
    /\ fi < Len(filenames)
    /\ FileSystem[filenames[fi + 1]].readable
    /\ \E ord \in Orders(open_close_pairs) :
        LET hits == script_check_file(prog, FileSystem[filenames[fi + 1]].lines, ord)
        IN  \E korder \in Orders(DOMAIN hits) :
                LET out == condense_to_list(hits, korder)
                IN  /\ out.raises = ""
                    /\ stdout' = stdout \o print_list(filenames[fi + 1], out.value)
    /\ fi' = fi + 1
    /\ visited' = Append(visited, filenames[fi + 1])
    /\ UNCHANGED <<pc, prog, argv, filenames, args, open_close_pairs, stderr,
                   raised, scanVars, pairVars, condVars>>

(* braces.py lines 122-126: the file is scanned and condense_to_list       *)
(* raises; only IOError is caught, so the exception ends the run           *)
CrashOnFile ==
    /\ pc = "loop"
    /\ fi < Len(filenames)
    /\ FileSystem[filenames[fi + 1]].readable
    /\ \E ord \in Orders(open_close_pairs) :
        LET hits == script_check_file(prog, FileSystem[filenames[fi + 1]].lines, ord)
        IN  \E korder \in Orders(DOMAIN hits) :
                LET out == condense_to_list(hits, korder)
                IN  /\ out.raises # ""
                    /\ raised' = out.raises
    /\ pc' = "crashed"
    /\ visited' = Append(visited, filenames[fi + 1])
    /\ UNCHANGED <<prog, argv, filenames, args, open_close_pairs, fi, stdout,
                   stderr, scanVars, pairVars, condVars>>

(* The loop over args.filenames ends. *)
Finish ==
    /\ pc = "loop"
    /\ fi = Len(filenames)
    /\ pc' = "exit"
    /\ UNCHANGED <<prog, argv, filenames, args, open_close_pairs, fi, visited,
                   stdout, stderr, raised, scanVars, pairVars, condVars>>

NextMain ==
    \/ ParseArgs
    \/ AcceptSymbols
    \/ RefuseSymbols
    \/ SkipFile
    \/ ReportFile
    \/ CrashOnFile
    \/ Finish

SpecMain == InitMain /\ [][NextMain]_vars

----------------------------------------------------------------------------
(* The input as the scan meets it, and reference notions the claims use.   *)

(* The characters of a line with their positions (1-indexed). *)
LineEvents(line, ln) ==
    [i \in 1..Len(line) |-> <<line[i], <<ln, i>>>>]

RECURSIVE EventsFrom(_, _)
EventsFrom(file, ln) ==
    IF ln > Len(file) THEN <<>>
    ELSE LineEvents(file[ln], ln) \o EventsFrom(file, ln + 1)

(* Every character of the file with its position, in scan order. *)
Events(file) == EventsFrom(file, 1)

(* The positions, in scan order, of the occurrences of sym. *)
Occurrences(file, sym) ==
    LET ev == Events(file)
        IsSym(e) == e[1] = sym
        hit == SelectSeq(ev, IsSym)
    IN  [i \in 1..Len(hit) |-> hit[i][2]]

(* The reference stack of an ordinary pair (o, c) after n characters. *)
RECURSIVE RefStack(_, _, _, _)
RefStack(ev, n, o, c) ==
    IF n = 0 THEN [stack |-> <<>>, unmatched |-> <<>>]
    ELSE LET prev == RefStack(ev, n - 1, o, c)
             e == ev[n]
         IN  IF e[1] = o THEN [prev EXCEPT !.stack = Append(@, e[2])]
             ELSE IF e[1] = c
             THEN IF prev.stack # <<>>
                  THEN [prev EXCEPT !.stack = Front(@)]
                  ELSE [prev EXCEPT !.unmatched = Append(@, e[2])]
             ELSE prev

(* The symbols of pair p are registered under no other pair of ord. *)
Unshared(ord, p) ==
    \A q \in Range(ord) : q # p => {q[1], q[2]} \cap {p[1], p[2]} = {}

(* Opens minus closes of pair (o, c) among the first n characters. *)
RECURSIVE Balance(_, _, _, _)
Balance(ev, n, o, c) ==
    IF n = 0 THEN 0
    ELSE Balance(ev, n - 1, o, c)
         + (IF ev[n][1] = o THEN 1 ELSE IF ev[n][1] = c THEN -1 ELSE 0)

ProperlyNested(file, o, c) ==
    LET ev == Events(file)
    IN  /\ \A n \in 0..Len(ev) : Balance(ev, n, o, c) >= 0
        /\ Balance(ev, Len(ev), o, c) = 0

----------------------------------------------------------------------------
(* Claims about the scan. *)

(* C1: with a pair set holding one ordinary pair, check_file (of both      *)
(* scripts) returns as unmatched opens the positions left on the reference *)
(* stack, in push order, and as unmatched closes the positions of the      *)
(* closes met while that stack was empty, in scan order.                   *)
C1_OrdinaryPairIsReferenceStack ==
    (pc = "done" /\ Len(order) = 1 /\ order[1][1] # order[1][2]) =>
        LET p == order[1]
            ev == Events(f)
            ref == RefStack(ev, Len(ev), p[1], p[2])
        IN  /\ b_result[p] = <<ref.stack, ref.unmatched>>
            /\ u_result[p] = <<ref.stack, ref.unmatched>>

(* C1's case: an unmatched close, a pair matched across the line boundary  *)
(* and an unmatched open.                                                  *)
C1_Witness ==
    /\ pc = "done"
    /\ order = << <<"{", "}">> >>
    /\ f = << <<"}", "{", "x">>, <<"}", "{">> >>
    /\ b_result[<<"{", "}">>] = << << <<2, 2>> >>, << <<1, 1>> >> >>
    /\ u_result = b_result

C6_ProperlyNestedIsClean ==
    pc = "done" =>
        \A p \in Range(order) :
            (p[1] # p[2] /\ Unshared(order, p) /\ ProperlyNested(f, p[1], p[2])) =>
                /\ b_result[p] = <<<<>>, <<>>>>
                /\ u_result[p] = <<<<>>, <<>>>>

(* C6's case: nesting of depth two that spans two lines. *)
C6_Witness ==
    /\ pc = "done"
    /\ order = << <<"{", "}">> >>
    /\ f = << <<"{", "x", "{">>, <<"}", "}">> >>
    /\ ProperlyNested(f, "{", "}")
    /\ b_result[<<"{", "}">>] = <<<<>>, <<>>>>

(* C3, as stated: whatever symbols the pairs share, the result reported    *)
(* for each pair is the result of scanning the same input with that pair   *)
(* alone.                                                                  *)
C3_PairsIndependent ==
    pc = "done" =>
        \A p \in Range(order) : b_result[p] = check_file(f, <<p>>)[p]

(* The symbols some pair of ord registers. *)
Registered(ord) ==
    {ord[i][1] : i \in DOMAIN ord} \cup {ord[i][2] : i \in DOMAIN ord}

(* file with ch inserted in line ln so that it stands at column col. *)
Insert(file, ln, col, ch) ==
    [file EXCEPT ![ln] = SubSeq(@, 1, col - 1) \o <<ch>> \o SubSeq(@, col, Len(@))]

(* The places of file where a character can be inserted. *)
InsertionPoints(file) ==
    UNION {{<<ln, col>> : col \in 1..(Len(file[ln]) + 1)} : ln \in 1..Len(file)}

(* A position after an insertion at (ln, col): the positions of line ln at *)
(* or after column col move one column to the right.                       *)
ShiftPos(pos, ln, col) ==
    IF pos[1] = ln /\ pos[2] >= col THEN <<pos[1], pos[2] + 1>> ELSE pos

ShiftList(list, ln, col) ==
    [i \in 1..Len(list) |-> ShiftPos(list[i], ln, col)]

ShiftResult(res, ln, col) ==
    [p \in DOMAIN res |-> <<ShiftList(res[p][1], ln, col), ShiftList(res[p][2], ln, col)>>]

(* C5, as stated: inserting a character no pair registers leaves every     *)
(* pair's lists of positions unchanged.                                    *)
C5_InsertionChangesNothing ==
    pc = "done" =>
        \A pt \in InsertionPoints(f) : \A ch \in Chars \ Registered(order) :
            check_file(Insert(f, pt[1], pt[2], ch), order) = b_result

(* C5, amended: inserting a character no pair registers leaves unchanged   *)
(* which occurrences each pair reports and in which order; the reported    *)
(* positions are those of the same occurrences in the new input, i.e. the  *)
(* positions of the edited line at or after the insertion point move one   *)
(* column to the right (deleting is the same read backwards).              *)
C5_InsertionShiftsColumns ==
    pc = "done" =>
        \A pt \in InsertionPoints(f) : \A ch \in Chars \ Registered(order) :
            check_file(Insert(f, pt[1], pt[2], ch), order)
                = ShiftResult(b_result, pt[1], pt[2])

(* C5's case: a character inserted before a reported open, on a line       *)
(* followed by another reported open.                                      *)
C5_Witness ==
    /\ pc = "done"
    /\ order = << <<"{", "}">> >>
    /\ f = << <<"{">>, <<"{">> >>
    /\ b_result[<<"{", "}">>][1] = << <<1, 1>>, <<2, 1>> >>
    /\ check_file(Insert(f, 1, 1, "x"), order)[<<"{", "}">>][1] = << <<1, 2>>, <<2, 1>> >>

----------------------------------------------------------------------------
(* Claims about condense_to_list and list_to_pairs. *)

(* How often e occurs in seq. *)
RECURSIVE CountIn(_, _)
CountIn(seq, e) ==
    IF seq = <<>> THEN 0
    ELSE CountIn(Front(seq), e) + (IF seq[Len(seq)] = e THEN 1 ELSE 0)

RECURSIVE SumOver(_, _, _)
SumOver(S, hd, e) ==
    IF S = {} THEN 0
    ELSE LET p == CHOOSE q \in S : TRUE
         IN  (IF p[1] = e[1] THEN CountIn(hd[p][1], <<e[2], e[3]>>) ELSE 0)
             + (IF p[2] = e[1] THEN CountIn(hd[p][2], <<e[2], e[3]>>) ELSE 0)
             + SumOver(S \ {p}, hd, e)

(* How often the mapping hd holds entry e = (symbol, line, col). *)
Expected(hd, e) == SumOver(DOMAIN hd, hd, e)

(* out holds every entry of hd as often as hd does, and nothing else. *)
IsPermutationOfEntries(out, hd) ==
    /\ \A i \in DOMAIN out : CountIn(out, out[i]) = Expected(hd, out[i])
    /\ \A p \in DOMAIN hd :
        /\ \A i \in DOMAIN hd[p][1] :
            CountIn(out, <<p[1], hd[p][1][i][1], hd[p][1][i][2]>>) >= 1
        /\ \A i \in DOMAIN hd[p][2] :
            CountIn(out, <<p[2], hd[p][2][i][1], hd[p][2][i][2]>>) >= 1

(* out ascends by (line, column). *)
AscendsByPosition(out) ==
    \A i, j \in DOMAIN out :
        i < j => (out[i][2] < out[j][2]
                  \/ (out[i][2] = out[j][2] /\ out[i][3] <= out[j][3]))

(* C4, as stated: for every mapping condense_to_list returns a sequence,   *)
(* a permutation of the mapping's entries ascending by (line, column).     *)
C4_CondenseSortedPermutation ==
    pc = "condensed" =>
        /\ condensed.raises = ""
        /\ IsPermutationOfEntries(condensed.value, hit_dictionary)
        /\ AscendsByPosition(condensed.value)

(* What holds of C4: the same for every mapping with at least one pair. *)
Condense_NonEmptySortedPermutation ==
    (pc = "condensed" /\ DOMAIN hit_dictionary # {}) =>
        /\ condensed.raises = ""
        /\ IsPermutationOfEntries(condensed.value, hit_dictionary)
        /\ AscendsByPosition(condensed.value)

(* The case of Condense_NonEmptySortedPermutation: the sort reorders the   *)
(* entries of two pairs.                                                   *)
Condense_Witness ==
    /\ pc = "condensed"
    /\ Cardinality(DOMAIN hit_dictionary) = 2
    /\ Len(condensed.value) = 4
    /\ condensed.value # concat_all(entry_lists(hit_dictionary, key_order))

(* C7, as stated: list_to_pairs fails on every odd-length sequence. *)
C7_OddLengthFails ==
    (pc = "paired" /\ Len(l) % 2 = 1) => pairs.raises # ""

(* C7, amended: list_to_pairs never fails; it returns the pairs            *)
(* (l[j], l[j+1]) of the odd (1-based) indices j < len(l), so the last     *)
(* symbol of an odd-length sequence is dropped without a word.             *)
C7_OddLengthDropsLast ==
    pc = "paired" =>
        /\ pairs.raises = ""
        /\ pairs.value = {<<l[j], l[j + 1]>> : j \in {k \in 1..(Len(l) - 1) : k % 2 = 1}}
        /\ Len(l) % 2 = 1 => pairs.value = list_to_pairs(Front(l)).value

(* C7's case: three symbols give one pair. *)
C7_Witness ==
    /\ pc = "paired"
    /\ l = <<"{", "}", "$">>
    /\ pairs = Returns({<<"{", "}">>})

----------------------------------------------------------------------------
(* Claims about __main__. *)

(* The symbols the command lines and the files of the model use. *)
AllSymbols == {"{", "}", "$", "(", ")"}

IsSymbolChunk(chunk) == chunk \in AllSymbols

(* A line of standard output that print_list wrote. *)
IsReportLine(line) == Len(line) = 8 /\ line[2] = " - ["

ReportLines(out) == SelectSeq(out, IsReportLine)

(* C8, as stated: with an odd number of symbols the run writes a           *)
(* diagnostic listing the symbols to standard error, opens no file and     *)
(* writes no report line to standard output.                               *)
C8_OddSymbolsDiagnosedOnStderr ==
    (pc = "exit" /\ Len(args.symbols) % 2 = 1) =>
        /\ stderr # <<>>
        /\ SelectSeq(stderr, IsSymbolChunk) = args.symbols
        /\ visited = <<>>
        /\ ReportLines(stdout) = <<>>

(* What holds of C8: no file is opened and no report line is written by    *)
(* either script; braces.py writes the diagnostic with the symbols to      *)
(* standard error, find_unmatched_braces.py prints a usage line without    *)
(* the symbols to standard output.                                         *)
Main_OddSymbolsScanNothing ==
    (pc = "exit" /\ Len(args.symbols) % 2 = 1) =>
        /\ visited = <<>>
        /\ ReportLines(stdout) = <<>>
        /\ prog = "braces.py" =>
            /\ stdout = <<>>
            /\ Len(stderr) >= 3
            /\ SelectSeq(stderr, IsSymbolChunk) = args.symbols
        /\ prog = "find_unmatched_braces.py" =>
            /\ stderr = <<>>
            /\ stdout = << fub_usage >>

(* The report of one readable file. *)
FileReport(script, name, ps) ==
    LET ord == CHOOSE o \in Orders(ps) : TRUE
        hits == script_check_file(script, FileSystem[name].lines, ord)
        korder == CHOOSE k \in Orders(DOMAIN hits) : TRUE
    IN  print_list(name, condense_to_list(hits, korder).value)

(* The reports of the readable files among the first n of names. *)
RECURSIVE ExpectedReports(_, _, _, _)
ExpectedReports(script, names, n, ps) ==
    IF n = 0 THEN <<>>
    ELSE ExpectedReports(script, names, n - 1, ps)
         \o (IF FileSystem[names[n]].readable
             THEN FileReport(script, names[n], ps)
             ELSE <<>>)

(* The loop has taken the first fi files in order, nothing has stopped it, *)
(* and the report lines are those of the readable files among them.        *)
LoopReportsReadableFiles ==
    /\ pc # "crashed"
    /\ raised = ""
    /\ visited = SubSeq(filenames, 1, fi)
    /\ ReportLines(stdout) = ExpectedReports(prog, filenames, fi, open_close_pairs)
    /\ pc = "exit" => fi = Len(filenames)

(* C9, as stated: with a symbol list the script accepts, the loop visits   *)
(* the files in argument order, an unreadable file adds no line and does   *)
(* not stop the run, and the output is the concatenation of the reports of *)
(* the readable files.                                                     *)
C9_LoopReportsEveryReadableFile ==
    (pc \in {"loop", "exit", "crashed"} /\ symbols_accepted(prog, args.symbols)) =>
        LoopReportsReadableFiles

(* What holds of C9: the same whenever the accepted list is not empty      *)
(* (braces.py refuses the empty list; find_unmatched_braces.py accepts it  *)
(* and condense_to_list then raises TypeError on the first readable file). *)
Main_LoopReportsWithSomePair ==
    (/\ pc \in {"loop", "exit", "crashed"}
     /\ symbols_accepted(prog, args.symbols)
     /\ Len(args.symbols) > 0) =>
        LoopReportsReadableFiles

(* The case of Main_LoopReportsWithSomePair: an unreadable file, skipped,  *)
(* before a file that is reported.                                         *)
Main_LoopWitness ==
    /\ pc = "exit"
    /\ filenames = <<"gone.tex", "a.tex">>
    /\ visited = filenames
    /\ open_close_pairs = {<<"{", "}">>}
    /\ ReportLines(stdout) = << <<"a.tex", " - [", "1", ":", "1", "] (", "{", ")">> >>

(* C10, as stated: whenever --latex is on the command line of braces.py,   *)
(* the symbol list is latex_symbol_list, whatever --symbols says and       *)
(* wherever it stands.                                                     *)
C10_LatexAlwaysWins ==
    (/\ pc # "start"
     /\ prog = "braces.py"
     /\ \E i \in DOMAIN argv : argv[i].opt = "--latex") =>
        args.symbols = latex_symbol_list

(* What holds of C10: the last of the --latex and --symbols options on the *)
(* command line decides the symbol list.                                   *)
Main_LastSymbolsOptionWins ==
    (pc # "start") =>
        LET setters == {i \in DOMAIN argv : argv[i].opt \in {"--latex", "--symbols"}}
        IN  IF setters = {} THEN args.symbols = default_symbols
            ELSE LET last == CHOOSE i \in setters : \A j \in setters : j <= i
                 IN  args.symbols = IF argv[last].opt = "--latex"
                                    THEN latex_symbol_list
                                    ELSE argv[last].values

----------------------------------------------------------------------------
(* Termination of the scan.                                                *)

(* What the scan has done so far: characters run, lines taken, returned. *)
ScanProgress ==
    Len(seen) + li + (IF pc = "done" THEN 1 ELSE 0)

(* No exception so far, and the loop body ran on the characters of the     *)
(* input read so far, each once, first by line and then by column.         *)
ScanClean ==
    /\ bst.error = ""
    /\ Len(seen) <= Len(Events(f))
    /\ seen = SubSeq(Events(f), 1, Len(seen))
    /\ pc = "done" =>
          /\ seen = Events(f)
          /\ DOMAIN b_result = Range(order)
          /\ Cardinality(DOMAIN b_result) = Cardinality(Range(order))

(* C11: for every input and every pair set (empty, self-matching, sharing  *)
(* symbols) check_file raises nothing, runs its loop body on each          *)
(* character exactly once in line-then-column order, never stops before    *)
(* its return, makes progress with every step (so it terminates), and      *)
(* returns a mapping with exactly one entry per configured pair.           *)
C11_ScanTerminatesCleanly ==
    /\ [](ScanClean /\ (pc = "done" \/ ENABLED NextScan))
    /\ [][ScanProgress' = ScanProgress + 1]_vars

(* A finished scan of two lines with three pairs, one self-matching and    *)
(* one sharing its symbols with the two others.                            *)
C11_Witness ==
    /\ pc = "done"
    /\ Len(order) = 3
    /\ Len(f) = 2
    /\ Len(seen) = MaxLen
    /\ \E i \in DOMAIN seen : seen[i][1] = "$"
    /\ \E i \in DOMAIN seen : seen[i][1] = "}"

----------------------------------------------------------------------------
(* Pair sets whose symbols are pairwise distinct across pairs.             *)

(* Every character is registered under at most one pair of ord. *)
PairwiseDistinct(ord) ==
    \A p \in Range(ord) : Unshared(ord, p)

(* C12: when the symbols are pairwise distinct across the pairs, the       *)
(* result braces.py check_file reports for each pair is the result of      *)
(* scanning the same lines with that pair alone; the symbols of the other  *)
(* pairs count for nothing in it.                                          *)
C12_DistinctPairsIndependent ==
    (pc = "done" /\ PairwiseDistinct(order)) =>
        \A p \in Range(order) : b_result[p] = check_file(f, <<p>>)[p]

(* C12's case: two pairs with distinct symbols, both symbols' kinds in the *)
(* input, interleaved, and something reported for each pair.               *)
C12_Witness ==
    /\ pc = "done"
    /\ Range(order) = {<<"{", "}">>, <<"$", "$">>}
    /\ PairwiseDistinct(order)
    /\ \E i, j, k \in DOMAIN seen :
          i < j /\ j < k /\ seen[i][1] = "{" /\ seen[j][1] = "$" /\ seen[k][1] = "}"
    /\ b_result[<<"$", "$">>][1] # <<>>
    /\ b_result[<<"{", "}">>] = <<<<>>, <<>>>>

----------------------------------------------------------------------------
(* The list operations of one step of the scan of braces.py.               *)

(* Between s and t one position was pushed on one list of the heap. *)
OnePush(s, t, pos) ==
    /\ \E id \in DOMAIN s.heap : t.heap = [s.heap EXCEPT ![id] = Append(@, pos)]
    /\ t.closes = s.closes

(* Between s and t one list of the heap lost its last position. *)
OnePop(s, t) ==
    /\ \E id \in DOMAIN s.heap :
          /\ s.heap[id] # <<>>
          /\ t.heap = [s.heap EXCEPT ![id] = Front(@)]
    /\ t.closes = s.closes

(* Between s and t one position was appended to one unmatched-close list. *)
OneAppend(s, t, pos) ==
    /\ \E c \in DOMAIN s.closes : t.closes = [s.closes EXCEPT ![c] = Append(@, pos)]
    /\ t.heap = s.heap

NoListOp(s, t) ==
    /\ t.heap = s.heap
    /\ t.closes = s.closes

(* C13: a step of the scan that runs the loop body on a character changes  *)
(* nothing in any list when the character is no configured symbol, and     *)
(* does exactly one push, one pop or one append, on exactly one list, when *)
(* it is one; a step that takes no character changes no list.              *)
C13_OneListOperationPerCharacter ==
    [][IF seen' = seen
       THEN NoListOp(bst, bst')
       ELSE LET e == seen'[Len(seen')]
            IN  IF e[1] \in Registered(order)
                THEN \/ OnePush(bst, bst', e[2])
                     \/ OnePop(bst, bst')
                     \/ OneAppend(bst, bst', e[2])
                ELSE NoListOp(bst, bst')]_vars

(* C13's case: with two pairs, a push, a character that is no symbol, and *)
(* a pop have happened, and every list is empty.                           *)
C13_Witness ==
    /\ pc = "scan"
    /\ Len(order) = 2
    /\ Len(seen) = 3
    /\ seen[1][1] = "{" /\ seen[2][1] = "x" /\ seen[3][1] = "}"
    /\ \A id \in DOMAIN bst.heap : bst.heap[id] = <<>>
    /\ \A c \in DOMAIN bst.closes : bst.closes[c] = <<>>

----------------------------------------------------------------------------
(* The self-matching pair as a toggle.                                     *)

(* The list braces.py reports as the unmatched opens of pair p. *)
StackOf(st, p) == st.heap[st.opens[p[1]]]

(* C14, as stated: in every state of a scan by braces.py, the stack of a   *)
(* self-matching pair holds at most one position and the pair's            *)
(* unmatched-close list is empty, and every occurrence of the symbol flips *)
(* the stack between empty and one position.                               *)
C14_SelfMatchingIsToggle ==
    /\ [](pc \in {"scan", "done"} =>
            \A p \in Range(order) :
                p[1] = p[2] =>
                    /\ Len(StackOf(bst, p)) <= 1
                    /\ bst.closes[p[2]] = <<>>)
    /\ [][seen' # seen =>
            \A p \in Range(order) :
                (p[1] = p[2] /\ seen'[Len(seen')][1] = p[1]) =>
                    Len(StackOf(bst', p)) = 1 - Len(StackOf(bst, p))]_vars

----------------------------------------------------------------------------
(* The unmatched-close lists over the scan.                                *)

IsPrefix(a, b) ==
    /\ Len(a) <= Len(b)
    /\ a = SubSeq(b, 1, Len(a))

(* C15: the unmatched-close list of every symbol only grows at its end     *)
(* during a scan by braces.py; the open symbol of an ordinary pair met     *)
(* later is pushed on the pair's stack and touches no unmatched-close      *)
(* list; the return reports both lists as the scan left them.              *)
C15_UnmatchedClosesAppendOnly ==
    /\ [][/\ \A c \in DOMAIN bst.closes : IsPrefix(bst.closes[c], bst'.closes[c])
          /\ seen' # seen =>
                \A p \in Range(order) :
                    (p[1] # p[2] /\ seen'[Len(seen')][1] = p[1]) =>
                        /\ bst'.closes = bst.closes
                        /\ StackOf(bst', p) =
                              Append(StackOf(bst, p), seen'[Len(seen')][2])]_vars
    /\ [](pc = "done" =>
            \A p \in Range(order) :
                b_result[p] = <<StackOf(bst, p), bst.closes[p[2]]>>)

(* C15's case: a close recorded as unmatched, then an open of the same     *)
(* pair that is never closed; both are reported.                           *)
C15_Witness ==
    /\ pc = "done"
    /\ Len(order) = 2
    /\ <<"{", "}">> \in Range(order)
    /\ \E i, j \in DOMAIN seen :
          /\ i < j
          /\ seen[i][1] = "}"
          /\ seen[j][1] = "{"
          /\ b_result[<<"{", "}">>] = << <<seen[j][2]>>, <<seen[i][2]>> >>

----------------------------------------------------------------------------
(* The positions the scan holds.                                           *)

(* (line, column) order *)
PosLess(a, b) ==
    \/ a[1] < b[1]
    \/ a[1] = b[1] /\ a[2] < b[2]

(* pos is 1-indexed, lies in the part of the input the loops have taken,   *)
(* and the character there is sym.                                         *)
ReadPosition(pos, sym) ==
    /\ pos[1] \in 1..li
    /\ pos[2] \in 1..Len(f[pos[1]])
    /\ pos[1] = li => pos[2] <= ci
    /\ f[pos[1]][pos[2]] = sym

(* list holds positions of sym already read, in strictly increasing order. *)
WellPlaced(list, sym) ==
    /\ \A i \in DOMAIN list : ReadPosition(list[i], sym)
    /\ \A i, j \in DOMAIN list : i < j => PosLess(list[i], list[j])

(* C16: in every state of a scan by braces.py, for every pair, the         *)
(* positions on the pair's stack are 1-indexed positions of its open       *)
(* symbol inside the input already read, those of its unmatched-close list *)
(* are such positions of its close symbol, and both lists increase         *)
(* strictly in (line, column).                                             *)
C16_PositionsReadAndIncreasing ==
    pc \in {"scan", "done"} =>
        \A p \in Range(order) :
            /\ WellPlaced(StackOf(bst, p), p[1])
            /\ WellPlaced(bst.closes[p[2]], p[2])

(* C16's case: during the scan of the second line, a stack that holds a   *)
(* position of each line and a non-empty unmatched-close list.             *)
C16_Witness ==
    /\ pc = "scan"
    /\ li = 2
    /\ ci >= 1
    /\ \E p \in Range(order) :
          /\ Len(StackOf(bst, p)) = 2
          /\ StackOf(bst, p)[1][1] = 1
          /\ StackOf(bst, p)[2][1] = 2
          /\ bst.closes[p[2]] # <<>>

----------------------------------------------------------------------------
(* The order of the two lists of an ordinary pair.                         *)

(* C17: in the mapping braces.py check_file returns for a pair set with    *)
(* pairwise distinct symbols, every unmatched close of an ordinary pair    *)
(* lies before every unmatched open of that pair in (line, column) order.  *)
C17_UnmatchedClosesBeforeOpens ==
    (pc = "done" /\ PairwiseDistinct(order)) =>
        \A p \in Range(order) :
            p[1] # p[2] =>
                \A i \in DOMAIN b_result[p][2], j \in DOMAIN b_result[p][1] :
                    PosLess(b_result[p][2][i], b_result[p][1][j])

(* C17's case: two unmatched closes on the first line and an unmatched     *)
(* open on the second, beside a second pair.                               *)
C17_Witness ==
    /\ pc = "done"
    /\ PairwiseDistinct(order)
    /\ Len(order) = 2
    /\ b_result[<<"{", "}">>] = << << <<2, 1>> >>, << <<1, 1>>, <<1, 2>> >> >>

----------------------------------------------------------------------------
(* The two scripts side by side.                                           *)

NoSelfMatching(ord) ==
    \A p \in Range(ord) : p[1] # p[2]

(* C18: with a pair set that has no self-matching pair and pairwise        *)
(* distinct symbols, after every step of the two scans run side by side    *)
(* the stack and the unmatched-close list of every pair are equal in       *)
(* braces.py and find_unmatched_braces.py, and the two check_file return   *)
(* the same mapping.                                                       *)
C18_ScriptsAgreeStepByStep ==
    (pc \in {"scan", "done"} /\ NoSelfMatching(order) /\ PairwiseDistinct(order)) =>
        /\ \A p \in Range(order) :
              /\ StackOf(bst, p) = ust.opens[p[1]]
              /\ bst.closes[p[2]] = ust.closes[p[2]]
        /\ pc = "done" => b_result = u_result

(* C18's case: two ordinary pairs, an unmatched open of one, an unmatched  *)
(* close and an unmatched open of the other, returned by both scripts.     *)
C18_Witness ==
    /\ pc = "done"
    /\ Len(order) = 2
    /\ NoSelfMatching(order)
    /\ PairwiseDistinct(order)
    /\ b_result[<<"(", ")">>][1] # <<>>
    /\ b_result[<<"{", "}">>][1] # <<>>
    /\ b_result[<<"{", "}">>][2] # <<>>
    /\ u_result = b_result

====
